---- MODULE Spec2Model ----
(***************************************************************************)
(* Model of the adaptive learning engine of agteo/brainee:                 *)
(*   src/integrations/state_manager.py   UserStateManager                  *)
(*   src/learning_engine.py              LearningEngine                    *)
(*   src/app.py                          the HTTP handlers that drive it   *)
(*   src/integrations/liquidmetal_runner.py  the reasoning-service runner  *)
(* The in-memory record of the learner (UserStateManager.state) is kept in *)
(* one variable per key; store is the record list of                       *)
(* data/user_progress.json, which a second learner (peer) shares.          *)
(***************************************************************************)
EXTENDS Integers, Sequences, FiniteSets, TLC

VARIABLES
    current_module,            \* state["current_module"]
    current_page,              \* state["current_page"] (absent key reads as 0)
    difficulty_level,          \* state["difficulty_level"]
    completed_modules,         \* state["completed_modules"]
    quiz_performance,          \* state["quiz_performance"]
    hesitation_history,        \* state["hesitation_history"]
    preferred_learning_style,  \* state["preferred_learning_style"]
    pending_clarifications,    \* state["pending_clarifications"] (absent reads as [])
    store,                     \* the record list of user_progress.json
    request,                   \* the learner's request in flight and its position
    peer,                      \* the engine of a second learner on the same file
    now,                       \* int(time.time()), whole seconds
    result,                    \* what the last operation returned
    answers,                   \* the diagnostic batch of the request being scored
    diagnostic_result          \* what calculate_diagnostic_level returned for it

vars == <<current_module, current_page, difficulty_level, completed_modules,
          quiz_performance, hesitation_history, preferred_learning_style,
          pending_clarifications, store, request, peer, now, result,
          answers, diagnostic_result>>

learner == <<current_module, current_page, difficulty_level, completed_modules,
             quiz_performance, hesitation_history, preferred_learning_style,
             pending_clarifications>>

storage == <<store, request, peer>>

----------------------------------------------------------------------------
(* Bounds of the model *)

\* longest diagnostic batch a client posts (previous_answers + the current one)
MaxBatch == 5
\* number of fundamentals_pageN.md files found by get_module_page_count
FundamentalsPages == 2
\* longest pending_clarifications queue explored
MaxPending == 1
\* attempts recorded directly through UserStateManager.record_quiz_attempt
MaxAttempts == 4
\* longest pending_clarifications queue of the clarification sessions
MaxQueue == 2
\* last value of the clock, int(time.time()), in the clarification sessions
MaxClock == 1
MaxCheckQuestions == 3
MaxStreak == 6

----------------------------------------------------------------------------
(* Helpers *)

Min(a, b) == IF a < b THEN a ELSE b
Max(a, b) == IF a > b THEN a ELSE b

\* Python's x in list
Contains(s, x) == \E i \in 1..Len(s) : s[i] = x

\* Python's list[-n:]
LastN(s, n) == IF Len(s) <= n THEN s ELSE SubSeq(s, Len(s) - n + 1, Len(s))

None == "None"

----------------------------------------------------------------------------
(* Diagnostic Scorer: LearningEngine.calculate_diagnostic_level *)

\* "I'm not sure" is always the 5th option
UnsureOption == 4

question_weights == <<1, 1, 2, 2, 3>>

\* weight = question_weights[q_idx] if q_idx < len(question_weights) else 1
Weight(q_idx) ==
    IF q_idx < Len(question_weights) THEN question_weights[q_idx + 1] ELSE 1

ZeroTally == [total_score |-> 0, total_weight |-> 0,
              unsure_count |-> 0, correct_count |-> 0]

\* one iteration of the for loop over the answers
TallyAnswerScoreOnly(t, answer) ==
    LET weight == Weight(answer.question_index) IN
    IF answer.selected_option = UnsureOption
    THEN [t EXCEPT !.unsure_count = @ + 1]
    ELSE IF answer.selected_option = answer.correct_answer_index
    THEN [t EXCEPT !.correct_count = @ + 1,
                   !.total_score = @ + weight]
    ELSE [t EXCEPT !.total_weight = @ + weight]

TallyAnswer(t, answer) ==
    LET weight == Weight(answer.question_index) IN
    IF answer.selected_option = UnsureOption
    THEN [t EXCEPT !.unsure_count = @ + 1]
    ELSE IF answer.selected_option = answer.correct_answer_index
    THEN [t EXCEPT !.correct_count = @ + 1,
                   !.total_score = @ + weight,
                   !.total_weight = @ + weight]
    ELSE [t EXCEPT !.total_weight = @ + weight]

RECURSIVE Tally(_, _)
Tally(batch, i) ==
    IF i = 0 THEN ZeroTally ELSE TallyAnswer(Tally(batch, i - 1), batch[i])

DiagResult(level, all_correct, all_unsure, stage) ==
    [level |-> level, all_correct |-> all_correct, all_unsure |-> all_unsure,
     stage |-> stage]

\* avg_score = total_score / total_weight compared with 0.8, 0.6, 0.4.  The
\* quotient of two small integers is correctly rounded and so is the literal,
\* hence score/weight >= k/5 exactly when 5*score >= k*weight.
MapScoreLoose(total_score, total_weight) ==
    IF 5 * total_score > 4 * total_weight THEN 3
    ELSE IF 5 * total_score > 3 * total_weight THEN 2
    ELSE IF 5 * total_score > 2 * total_weight THEN 1
    ELSE 0

MapScore(total_score, total_weight) ==
    IF 5 * total_score >= 4 * total_weight THEN 3
    ELSE IF 5 * total_score >= 3 * total_weight THEN 2
    ELSE IF 5 * total_score >= 2 * total_weight THEN 1
    ELSE 0

\* stage names the return statement taken
calculate_diagnostic_level(batch) ==
    IF Len(batch) = 0 THEN DiagResult(1, FALSE, FALSE, "empty")
    ELSE
    LET t == Tally(batch, Len(batch))
        total_questions == Len(batch)
    IN  IF t.unsure_count = total_questions
        THEN DiagResult(0, FALSE, TRUE, "all_unsure")
        ELSE IF t.correct_count = total_questions
        THEN DiagResult(3, TRUE, FALSE, "all_correct")
        ELSE IF t.correct_count = 0
        THEN DiagResult(0, FALSE, t.unsure_count = total_questions, "zero_correct")
        ELSE IF t.unsure_count >= 4
        THEN DiagResult(0, FALSE, FALSE, "unsure_4")
        ELSE IF t.unsure_count >= 3
        THEN DiagResult(0, FALSE, FALSE, "unsure_3")
        ELSE IF t.total_weight > 0
        THEN DiagResult(MapScore(t.total_score, t.total_weight),
                        FALSE, FALSE, "average")
        ELSE IF t.unsure_count > 0
        THEN DiagResult(0, FALSE, t.unsure_count = total_questions, "no_weight")
        ELSE DiagResult(0, FALSE, FALSE, "no_weight")

NoDiagResult == DiagResult(0, FALSE, FALSE, "none")

----------------------------------------------------------------------------
(* Reasoning service: LiquidMetalRunner *)

\* A service result is <<>> (None, or a falsy value) or <<r>> (a truthy dict).
\* _call_liquidmetal_agent: a truthy result reaches
\*     self._usage_stats['last_used'] = datetime.now().isoformat()
\* and liquidmetal_runner.py never imports datetime, so the NameError is
\* caught by the except clause, which returns None.
call_liquidmetal_agent(client, service_result) ==
    IF ~client THEN <<>>
    ELSE IF service_result # <<>> THEN <<>>
    ELSE service_result

NumDiagnosticQuestions == 5

\* run_diagnostic_agent: the service's answer if one comes back, else the
\* local question at question_index, else "complete" without assessed_level
run_diagnostic_agent(client, user_input, question_index, service_result) ==
    LET r == IF client /\ user_input
             THEN call_liquidmetal_agent(client, service_result) ELSE <<>>
    IN  IF r # <<>> THEN r[1]
        ELSE IF question_index < NumDiagnosticQuestions
        THEN [next_mode |-> "multiple_choice", has_level |-> FALSE,
              assessed_level |-> 0]
        ELSE [next_mode |-> "complete", has_level |-> FALSE,
              assessed_level |-> 0]

\* the local diagnostic questions: the options (texts shortened) with the
\* correct one first and "I'm not sure" fifth
diagnostic_questions ==
    <<[options |-> <<"predicts the next piece of text", "a physical robot",
                     "a spreadsheet", "a hardware component", "I'm not sure">>,
       correct_answer |-> 0, difficulty_weight |-> 1],
      [options |-> <<"breaking text into smaller pieces", "security tokens",
                     "binary code", "encrypting data", "I'm not sure">>,
       correct_answer |-> 0, difficulty_weight |-> 1],
      [options |-> <<"a design that uses self-attention", "a database",
                     "a programming language", "a graphics device", "I'm not sure">>,
       correct_answer |-> 0, difficulty_weight |-> 2],
      [options |-> <<"each word attends to all other words", "attention to themselves",
                     "a debugging technique", "training faster", "I'm not sure">>,
       correct_answer |-> 0, difficulty_weight |-> 2],
      [options |-> <<"reasoning engine, tools and memory", "only a language model",
                     "code and data files", "GPUs and CPUs", "I'm not sure">>,
       correct_answer |-> 0, difficulty_weight |-> 3]>>

\* original_options[:4] and original_options[4]
NumShuffled == 4

\* what random.shuffle can leave in indexed_options: the original indices
\* 0..3 in any order
Shuffles ==
    {shuffle \in [1..NumShuffled -> 0..(NumShuffled - 1)] :
        \A i, j \in 1..NumShuffled : shuffle[i] = shuffle[j] => i = j}

\* the loop over indexed_options: the new index of the correct option, -1
\* when no tuple carries original_correct
NewCorrectIndex(shuffle, original_correct) ==
    IF \E i \in 1..Len(shuffle) : shuffle[i] = original_correct
    THEN (CHOOSE i \in 1..Len(shuffle) : shuffle[i] = original_correct) - 1
    ELSE -1

QuestionPayloadKeepingIndex(question_index, shuffle) ==
    LET current_question == diagnostic_questions[question_index + 1]
    IN  [options |-> [i \in 1..NumShuffled |->
                         current_question.options[shuffle[i] + 1]]
                     \o <<current_question.options[NumShuffled + 1]>>,
         correct_answer |-> current_question.correct_answer,
         difficulty_weight |-> current_question.difficulty_weight]

\* question_payload of the local question at question_index, its first four
\* options in the order random.shuffle left them
QuestionPayload(question_index, shuffle) ==
    LET current_question == diagnostic_questions[question_index + 1]
        new_correct_index == NewCorrectIndex(shuffle, current_question.correct_answer)
    IN  [options |-> [i \in 1..NumShuffled |->
                         current_question.options[shuffle[i] + 1]]
                     \o <<current_question.options[NumShuffled + 1]>>,
         correct_answer |-> IF new_correct_index = -1 THEN 0 ELSE new_correct_index,
         difficulty_weight |-> current_question.difficulty_weight]

----------------------------------------------------------------------------
(* Learner record and store: UserStateManager *)

\* app.py reads user_id from the request; the two learners of the model
user_id == "default_user"
peer_id == "peer_user"

Record ==
    [user_id |-> user_id,
     current_module |-> current_module,
     current_page |-> current_page,
     difficulty_level |-> difficulty_level,
     completed_modules |-> completed_modules,
     quiz_performance |-> quiz_performance,
     hesitation_history |-> hesitation_history,
     preferred_learning_style |-> preferred_learning_style,
     pending_clarifications |-> pending_clarifications]

InitialDifficulty == 1

\* _load_or_initialize_state with no stored record
InitLearner ==
    /\ current_module = "diagnostic"
    /\ current_page = 0
    /\ difficulty_level = InitialDifficulty
    /\ completed_modules = <<>>
    /\ quiz_performance = <<>>
    /\ hesitation_history = <<>>
    /\ preferred_learning_style = None
    /\ pending_clarifications = <<>>
    /\ store = <<>>

\* the dict _load_or_initialize_state builds for a user with no stored record
InitialRecord(user) ==
    [user_id |-> user,
     current_module |-> "diagnostic",
     current_page |-> 0,
     difficulty_level |-> InitialDifficulty,
     completed_modules |-> <<>>,
     quiz_performance |-> <<>>,
     hesitation_history |-> <<>>,
     preferred_learning_style |-> None,
     pending_clarifications |-> <<>>]

\* the first record of the list with this user_id, as the loop of
\* _load_or_initialize_state finds it; the initial record when there is none
RECURSIVE load_or_initialize_state(_, _)
load_or_initialize_state(all_users, user) ==
    IF all_users = <<>> THEN InitialRecord(user)
    ELSE IF Head(all_users).user_id = user THEN Head(all_users)
    ELSE load_or_initialize_state(Tail(all_users), user)

KeepAllUsers(all_users, user) == all_users

\* [u for u in all_users if u.get("user_id") != self.user_id]
WithoutUser(all_users, user) ==
    SelectSeq(all_users, LAMBDA u : u.user_id # user)

\* save_state with nothing running between its read of the file and its
\* rewrite: drop this user's stored record, append the in-memory one.
\* Used as the last conjunct of an action, after the record's new value.
\* The record holds strings, numbers, booleans, None and lists of these, which
\* json.dump and json.load give back unchanged.
Persist == store' = WithoutUser(store, user_id) \o <<Record'>>

SaveState ==
    /\ Persist
    /\ UNCHANGED <<request, peer>>

NoRequest == [op |-> "none"]

\* the engine of the second learner: its in-memory record and the list its
\* save_state has read and not yet rewritten
InitPeer == [state |-> InitialRecord(peer_id), saving |-> FALSE, all_users |-> <<>>]

LearningStyles == {"visual", "text", "examples"}

UpdateModuleNoAppend(module_name) ==
    /\ completed_modules' = completed_modules
    /\ current_module' = module_name

UpdateModuleAppendAlways(module_name) ==
    /\ completed_modules' = Append(completed_modules, current_module)
    /\ current_module' = module_name

\* update_module leaves current_page alone
UpdateModule(module_name) ==
    /\ completed_modules' =
          IF Contains(completed_modules, current_module)
          THEN completed_modules
          ELSE Append(completed_modules, current_module)
    /\ current_module' = module_name

MinDifficulty == 0
MaxDifficulty == 3
HesitationThreshold == 10

Clamp(d) == Max(MinDifficulty, Min(MaxDifficulty, d))

\* the heuristic of _adjust_difficulty on recent = quiz_performance[-2:]
HeuristicNoCeiling(recent, d) ==
    IF /\ \A i \in 1..Len(recent) : recent[i].correct
       /\ \A i \in 1..Len(recent) : recent[i].hesitation_seconds < HesitationThreshold
    THEN d + 1
    ELSE IF \/ Cardinality({i \in 1..Len(recent) : ~recent[i].correct}) >= 2
            \/ Cardinality({i \in 1..Len(recent) :
                              recent[i].hesitation_seconds > HesitationThreshold}) >= 2
    THEN Max(MinDifficulty, d - 1)
    ELSE d

HeuristicInclusive(recent, d) ==
    IF /\ \A i \in 1..Len(recent) : recent[i].correct
       /\ \A i \in 1..Len(recent) : recent[i].hesitation_seconds <= HesitationThreshold
    THEN Min(MaxDifficulty, d + 1)
    ELSE IF \/ Cardinality({i \in 1..Len(recent) : ~recent[i].correct}) >= 2
            \/ Cardinality({i \in 1..Len(recent) :
                              recent[i].hesitation_seconds > HesitationThreshold}) >= 2
    THEN Max(MinDifficulty, d - 1)
    ELSE d

Heuristic(recent, d) ==
    IF /\ \A i \in 1..Len(recent) : recent[i].correct
       /\ \A i \in 1..Len(recent) : recent[i].hesitation_seconds < HesitationThreshold
    THEN Min(MaxDifficulty, d + 1)
    ELSE IF \/ Cardinality({i \in 1..Len(recent) : ~recent[i].correct}) >= 2
            \/ Cardinality({i \in 1..Len(recent) :
                              recent[i].hesitation_seconds > HesitationThreshold}) >= 2
    THEN Max(MinDifficulty, d - 1)
    ELSE d

\* _adjust_difficulty: qp is quiz_performance with the new attempt appended,
\* d the current difficulty, prediction <<>> when the personalization service
\* is unavailable, fails or recommends nothing, else <<recommended>>
adjust_difficulty(qp, d, prediction) ==
    IF Len(qp) < 2 THEN d
    ELSE IF prediction # <<>> /\ Clamp(prediction[1]) # d
    THEN Clamp(prediction[1])
    ELSE Heuristic(LastN(qp, 2), d)

AttemptNoHesitation(question_id, correct, hesitation_seconds, d) ==
    [question_id |-> question_id, correct |-> correct,
     hesitation_seconds |-> 0, difficulty_level |-> d]

AttemptNoDifficulty(question_id, correct, hesitation_seconds, d) ==
    [question_id |-> question_id, correct |-> correct,
     hesitation_seconds |-> hesitation_seconds, difficulty_level |-> 0]

Attempt(question_id, correct, hesitation_seconds, d) ==
    [question_id |-> question_id, correct |-> correct,
     hesitation_seconds |-> hesitation_seconds, difficulty_level |-> d]

\* what an operation returned; the fields an operation does not return are
\* FALSE
Result(op, advanced, coming_soon, recorded, correct, is_confused) ==
    [op |-> op, advanced |-> advanced, coming_soon |-> coming_soon,
     recorded |-> recorded, correct |-> correct, is_confused |-> is_confused]

\* of an operation that returns nothing the model looks at
NoResult == Result("none", FALSE, FALSE, FALSE, FALSE, FALSE)

\* UserStateManager.record_quiz_attempt called on the state manager itself
RecordQuizAttempt(question_id, correct, hesitation_seconds, prediction) ==
    /\ quiz_performance' =
          Append(quiz_performance,
                 Attempt(question_id, correct, hesitation_seconds, difficulty_level))
    /\ hesitation_history' = Append(hesitation_history, hesitation_seconds)
    /\ difficulty_level' =
          adjust_difficulty(quiz_performance', difficulty_level, prediction)
    /\ result' = NoResult
    /\ UNCHANGED <<current_module, current_page, completed_modules,
                   preferred_learning_style, pending_clarifications,
                   now, answers, diagnostic_result>>
    /\ SaveState

----------------------------------------------------------------------------
(* Answer Evaluator: LearningEngine.evaluate_answer *)

\* An answer is abstracted to what evaluate_answer reads of it:
\*   phrase    its lowercased text contains one of the confusion_phrases
\*   length    len(user_answer.strip())
\*   keywords  its lowercased text contains one of the understanding_indicators
\* confidence is in tenths; stage names the return statement that produced
\* the evaluation.
EvaluationNeverConfused(is_correct, is_confused, confidence, stage) ==
    [is_correct |-> is_correct, is_confused |-> FALSE,
     confidence |-> confidence, stage |-> stage]

Evaluation(is_correct, is_confused, confidence, stage) ==
    [is_correct |-> is_correct, is_confused |-> is_confused,
     confidence |-> confidence, stage |-> stage]

ConfusionPhraseNever(answer) == FALSE

\* any(phrase in user_answer_lower for phrase in confusion_phrases)
ConfusionPhrase(answer) == answer.phrase

\* "UNDERSTANDING: yes" in result_text.lower(): the needle keeps its capital
\* letters and the haystack has none, so the test is false whatever the
\* service wrote
InLowered(service_said_yes) == FALSE

\* verdict is <<>> when there is no OpenAI client or the call raises, else
\* <<[understanding, confused, confidence]>>
evaluate_answer(answer, verdict) ==
    IF ConfusionPhrase(answer) THEN Evaluation(FALSE, TRUE, 0, "confusion_phrase")
    ELSE IF verdict # <<>> /\ answer.length > 0
    THEN Evaluation(InLowered(verdict[1].understanding),
                    InLowered(verdict[1].confused) \/ ConfusionPhrase(answer),
                    verdict[1].confidence, "service")
    ELSE IF answer.length < 10 THEN Evaluation(FALSE, TRUE, 2, "too_short")
    ELSE LET is_correct == answer.length >= 20
                           /\ (answer.keywords \/ answer.length >= 50)
         IN  Evaluation(is_correct, answer.length < 15,
                        IF is_correct /\ answer.length > 40 THEN 7
                        ELSE IF is_correct THEN 5 ELSE 3,
                        "heuristic")

----------------------------------------------------------------------------
(* Clarification Queue Manager *)

\* generate_clarification_module: module_id is
\* f"clarification_{question_id}_{int(time.time())}"
ClarificationUnit(question_id, t, source_module) ==
    [module_id |-> <<question_id, t>>, question_id |-> question_id,
     source_module |-> source_module]

WithoutIdEmptied(pending, clarification_id) == <<>>

\* [c for c in pending_clarifications if c.get("module_id") != clarification_id]
RECURSIVE WithoutId(_, _)
WithoutId(pending, clarification_id) ==
    IF pending = <<>> THEN <<>>
    ELSE IF Head(pending).module_id = clarification_id
    THEN WithoutId(Tail(pending), clarification_id)
    ELSE <<Head(pending)>> \o WithoutId(Tail(pending), clarification_id)

\* what complete_clarification returned, and the id it was called with
CompleteResult(removed, clarification_id) ==
    [op |-> "complete_clarification", removed |-> removed,
     clarification_id |-> clarification_id]

\* LearningEngine.complete_clarification
CompleteClarification(clarification_id) ==
    LET kept == WithoutId(pending_clarifications, clarification_id)
        removed == Len(kept) < Len(pending_clarifications)
    IN  /\ pending_clarifications' = kept
        /\ result' = CompleteResult(removed, clarification_id)
        /\ UNCHANGED <<current_module, current_page, difficulty_level,
                       completed_modules, quiz_performance, hesitation_history,
                       preferred_learning_style, now, answers,
                       diagnostic_result>>
        /\ IF removed THEN SaveState ELSE UNCHANGED storage

\* api_get_clarification without an id: the first pending clarification is
\* returned, 404 when there is none; nothing is written
ApiGetClarification ==
    /\ pending_clarifications # <<>>
    /\ result' = [op |-> "api_get_clarification",
                  clarification_id |-> pending_clarifications[1].module_id]
    /\ UNCHANGED <<learner, storage, now, answers, diagnostic_result>>

----------------------------------------------------------------------------
(* Session Orchestrator: LearningEngine.submit_quiz_answer *)

\* the confusion side effect: if current_diff > 0: difficulty = max(0, current_diff - 1)
ConfusionDecreaseNone(d) == d

ConfusionDecrease(d) == IF d > 0 THEN Max(0, d - 1) ELSE d

\* the feedback of submit_quiz_answer, with what the call did on the way:
\* recorded (the attempt was appended), override (is_correct_override was
\* given) and adapted (the difficulty after record_quiz_attempt, or the
\* difficulty found when the attempt was not recorded)
\* The feedback dict is built after the record was updated: current is what
\* get_current_difficulty() returns at lines 1017, 1018 and 1027.
SubmitResult(recorded, correct, is_confused, override, adapted) ==
    LET current == IF is_confused THEN ConfusionDecrease(adapted) ELSE adapted
        previous_difficulty == current
    IN  [op |-> "submit_quiz_answer", advanced |-> FALSE, coming_soon |-> FALSE,
         recorded |-> recorded, correct |-> correct, is_confused |-> is_confused,
         override |-> override, adapted |-> adapted,
         previous_difficulty |-> previous_difficulty,
         new_difficulty |-> current,
         difficulty_changed |-> previous_difficulty # current,
         change_direction |-> IF previous_difficulty = current THEN None
                              ELSE IF current > previous_difficulty
                              THEN "increased" ELSE "decreased"]

AlreadyAnsweredNever(question_id) == FALSE

AlreadyAnswered(question_id) ==
    \E i \in 1..Len(quiz_performance) :
        quiz_performance[i].question_id = question_id

\* override       <<>> for is_correct_override=None, else <<is_correct>>
\* answer, verdict  what evaluate_answer gets in semantic mode
\* intervention   the personalization service answered "yes"/"help"
\* prediction     what it recommends to _adjust_difficulty
\* t              the clock when the clarification unit is created
SubmitQuizAnswer(question_id, override, answer, verdict, hesitation_seconds, intervention, prediction, t) ==
    LET evaluation == IF override # <<>>
                      THEN Evaluation(override[1], FALSE, 5, "override")
                      ELSE evaluate_answer(answer, verdict)
        is_correct == evaluation.is_correct
        is_confused == evaluation.is_confused \/ intervention
        clarify == ~is_correct /\ current_module # "clarification"
        already_answered == AlreadyAnswered(question_id)
        qp == Append(quiz_performance,
                     Attempt(question_id, is_correct, hesitation_seconds,
                             difficulty_level))
        adapted == IF already_answered THEN difficulty_level
                   ELSE adjust_difficulty(qp, difficulty_level, prediction)
    IN  /\ t >= now
        /\ now' = t
        /\ pending_clarifications' =
              IF clarify
              THEN Append(pending_clarifications,
                          ClarificationUnit(question_id, t, current_module))
              ELSE pending_clarifications
        /\ quiz_performance' = IF already_answered THEN quiz_performance ELSE qp
        /\ hesitation_history' =
              IF already_answered THEN hesitation_history
              ELSE Append(hesitation_history, hesitation_seconds)
        /\ difficulty_level' =
              IF is_confused THEN ConfusionDecrease(adapted) ELSE adapted
        /\ preferred_learning_style' =
              IF is_confused THEN "examples" ELSE preferred_learning_style
        /\ result' = SubmitResult(~already_answered, is_correct, is_confused,
                                  override # <<>>, adapted)
        /\ UNCHANGED <<current_module, current_page, completed_modules,
                       answers, diagnostic_result>>
        /\ IF clarify \/ ~already_answered \/ is_confused
           THEN SaveState ELSE UNCHANGED storage

----------------------------------------------------------------------------
(* Progression State Machine *)

ModuleSequenceThroughCapstone ==
    <<"fundamentals", "transformers_llms", "agents", "build_todo_agent",
      "capstone_completed">>

module_sequence == <<"fundamentals", "transformers_llms", "agents", "build_todo_agent">>

\* the modules advance_to_next_module answers "coming soon" for
ComingSoonModules == {"agents", "build_todo_agent"}

IndexOf(module) == CHOOSE i \in 1..Len(module_sequence) : module_sequence[i] = module

\* get_module_page_count
get_module_page_count(module_name) ==
    IF module_name = "fundamentals"
    THEN (IF FundamentalsPages > 0 THEN FundamentalsPages ELSE 1)
    ELSE 1

\* the lesson get_next_lesson returns: a pending clarification
\* ("is_clarification": True) or a page of the current module
LessonResultLastUnit(skip_clarifications, is_clarification) ==
    [op |-> "get_next_lesson", skip_clarifications |-> skip_clarifications,
     is_clarification |-> is_clarification,
     clarification_id |->
         IF is_clarification
         THEN pending_clarifications[Len(pending_clarifications)].module_id
         ELSE <<>>]

\* clarification_id is the module_id of pending_clarifications[0] when a
\* clarification is served, and stays empty for a page of the module
LessonResult(skip_clarifications, is_clarification) ==
    [op |-> "get_next_lesson", skip_clarifications |-> skip_clarifications,
     is_clarification |-> is_clarification,
     clarification_id |->
         IF is_clarification THEN pending_clarifications[1].module_id ELSE <<>>]

GetNextLessonEnteringClarification(skip_clarifications, should_log) ==
    /\ current_module' =
          IF ~skip_clarifications /\ pending_clarifications # <<>>
          THEN "clarification"
          ELSE IF current_module = "diagnostic" THEN "fundamentals"
          ELSE current_module
    /\ result' = LessonResult(skip_clarifications, ~skip_clarifications /\ pending_clarifications # <<>>)
    /\ UNCHANGED <<current_page, difficulty_level, completed_modules,
                   quiz_performance, hesitation_history, preferred_learning_style,
                   pending_clarifications, now, answers, diagnostic_result>>
    /\ SaveState

\* LearningEngine.get_next_lesson.  should_log: the page view is logged and
\* the record saved; it is decided by state["last_logged_lesson"], a key of
\* the record that is left out here, and by the wall clock (a view older
\* than 5 minutes is logged again).
GetNextLesson(skip_clarifications, should_log) ==
    IF ~skip_clarifications /\ pending_clarifications # <<>>
    THEN /\ result' = LessonResult(skip_clarifications, TRUE)
         /\ UNCHANGED <<learner, storage, now, answers, diagnostic_result>>
    ELSE LET leaving == current_module = "diagnostic" IN
         /\ IF leaving
            THEN UpdateModule("fundamentals")
            ELSE UNCHANGED <<current_module, completed_modules>>
         /\ result' = LessonResult(skip_clarifications, FALSE)
         /\ UNCHANGED <<current_page, difficulty_level, quiz_performance,
                        hesitation_history, preferred_learning_style,
                        pending_clarifications, now, answers,
                        diagnostic_result>>
         /\ IF leaving \/ should_log THEN SaveState ELSE UNCHANGED storage

\* the id f"{module_name}_q{index}" under which an answer to the check
\* question index of a module is recorded
QuestionId(module_name, index) == <<module_name, index>>

\* question_page_map.get(page, -1), page being current_page for n check questions
QuestionPageMap(page, n) ==
    IF page = 1 THEN 0
    ELSE IF page = 2 THEN (IF n > 1 THEN 1 ELSE 0)
    ELSE IF page = 3 THEN (IF n > 2 THEN 2 ELSE IF n > 1 THEN 1 ELSE 0)
    ELSE -1

CheckQuestionsUnfiltered(module_name, page, n, answered_question_ids) ==
    IF module_name = "fundamentals" /\ n > 0
    THEN LET question_index == QuestionPageMap(page, n)
         IN  IF question_index >= 0 /\ question_index < n
             THEN <<question_index>> ELSE <<>>
    ELSE IF n > 0 THEN <<0>> ELSE <<>>

\* the check_questions get_next_lesson returns, as their global_index, from
\* the n questions the lesson agent gave for the page
CheckQuestions(module_name, page, n, answered_question_ids) ==
    IF module_name = "fundamentals" /\ n > 0
    THEN LET question_index == QuestionPageMap(page, n)
         IN  IF question_index >= 0 /\ question_index < n
             THEN IF QuestionId(module_name, question_index) \notin answered_question_ids
                  THEN <<question_index>> ELSE <<>>
             ELSE <<>>
    ELSE IF n > 0
    THEN LET unanswered == {i \in 0..(n - 1) :
                              QuestionId(module_name, i) \notin answered_question_ids}
         IN  IF unanswered # {}
             THEN <<CHOOSE i \in unanswered : \A j \in unanswered : i <= j>>
             ELSE <<>>
    ELSE <<>>

\* what advance_to_next_module does to the record and returns, given the
\* current_page its caller left
AdvanceModule(op, page) ==
    IF /\ Contains(module_sequence, current_module)
       /\ IndexOf(current_module) < Len(module_sequence)
    THEN LET next_module == module_sequence[IndexOf(current_module) + 1] IN
         IF next_module \in ComingSoonModules
         THEN /\ result' = Result(op, FALSE, TRUE, FALSE, FALSE, FALSE)
              /\ current_page' = page
              /\ UNCHANGED <<current_module, completed_modules, storage>>
         ELSE /\ UpdateModule(next_module)
              /\ current_page' = page
              /\ result' = Result(op, TRUE, FALSE, FALSE, FALSE, FALSE)
              /\ SaveState
    ELSE /\ result' = Result(op, FALSE, FALSE, FALSE, FALSE, FALSE)
         /\ current_page' = page
         /\ UNCHANGED <<current_module, completed_modules, storage>>

\* LearningEngine.advance_to_next_module, called by /api/advance
AdvanceToNextModule ==
    /\ UNCHANGED <<difficulty_level, quiz_performance, hesitation_history,
                   preferred_learning_style, pending_clarifications,
                   now, answers, diagnostic_result>>
    /\ AdvanceModule("advance_to_next_module", current_page)

\* LearningEngine.advance_to_next_page: on the last page it sets
\* current_page to 0 and then calls advance_to_next_module
AdvanceToNextPage ==
    /\ UNCHANGED <<difficulty_level, quiz_performance, hesitation_history,
                   preferred_learning_style, pending_clarifications,
                   now, answers, diagnostic_result>>
    /\ IF current_page + 1 < get_module_page_count(current_module)
       THEN /\ current_page' = current_page + 1
            /\ result' = Result("advance_to_next_page", TRUE, FALSE, FALSE,
                                FALSE, FALSE)
            /\ UNCHANGED <<current_module, completed_modules>>
            /\ SaveState
       ELSE AdvanceModule("advance_to_next_page", 0)

\* LearningEngine.run_capstone
RunCapstone ==
    /\ UpdateModule("capstone_completed")
    /\ result' = Result("run_capstone", FALSE, FALSE, FALSE, FALSE, FALSE)
    /\ UNCHANGED <<current_page, difficulty_level, quiz_performance,
                   hesitation_history, preferred_learning_style,
                   pending_clarifications, now, answers, diagnostic_result>>
    /\ SaveState

\* LearningEngine.reset_user_state: the new dict has no current_page,
\* pending_clarifications or last_logged_lesson key, which read as their
\* defaults
ResetUserState ==
    /\ current_module' = "diagnostic"
    /\ current_page' = 0
    /\ difficulty_level' = 1
    /\ completed_modules' = <<>>
    /\ quiz_performance' = <<>>
    /\ hesitation_history' = <<>>
    /\ preferred_learning_style' = None
    /\ pending_clarifications' = <<>>
    /\ result' = Result("reset_user_state", FALSE, FALSE, FALSE, FALSE, FALSE)
    /\ UNCHANGED <<now, answers, diagnostic_result>>
    /\ SaveState

----------------------------------------------------------------------------
(* Diagnostic *)

\* LearningEngine.run_diagnostic
RunDiagnostic(client, user_input, question_index, service_result) ==
    LET agent_result ==
            run_diagnostic_agent(client, user_input, question_index, service_result)
        complete == agent_result.has_level /\ agent_result.next_mode = "complete"
    IN  /\ difficulty_level' =
              IF complete THEN agent_result.assessed_level ELSE difficulty_level
        /\ result' = NoResult
        /\ UNCHANGED <<current_module, current_page, completed_modules,
                       quiz_performance, hesitation_history,
                       preferred_learning_style, pending_clarifications,
                       now, answers, diagnostic_result>>
        /\ IF complete THEN SaveState ELSE UNCHANGED storage

\* api_diagnostic reaches the final assessment when the current answer, the
\* last of all_answers, has question_index >= 4
LastQuestionIndex == 4

Finalizable(batch) ==
    /\ Len(batch) > 0
    /\ batch[Len(batch)].question_index >= LastQuestionIndex

\* api_diagnostic on the last question: score all_answers, store the level,
\* accelerate on all_correct, save.  result.advanced reports acceleration,
\* result.correct all_correct, result.is_confused all_unsure.
DiagnosticFinalization(batch) ==
    LET diag == calculate_diagnostic_level(batch)
        first == current_module = "diagnostic" \/ current_module = "fundamentals"
        later == /\ ~first
                 /\ Contains(module_sequence, current_module)
                 /\ IndexOf(current_module) < Len(module_sequence)
        accelerated == diag.all_correct /\ (first \/ later)
    IN  /\ Finalizable(batch)
        /\ difficulty_level' = diag.level
        /\ IF diag.all_correct /\ first
           THEN UpdateModule("transformers_llms")
           ELSE IF diag.all_correct /\ later
           THEN UpdateModule(module_sequence[IndexOf(current_module) + 1])
           ELSE UNCHANGED <<current_module, completed_modules>>
        /\ result' = Result("api_diagnostic", accelerated, FALSE, FALSE,
                            diag.all_correct, diag.all_unsure)
        /\ UNCHANGED <<current_page, quiz_performance, hesitation_history,
                       preferred_learning_style, pending_clarifications, now>>
        /\ SaveState

----------------------------------------------------------------------------
(* Inputs *)

QuestionIds == {"q1", "q2"}
Hesitations == {5, 10, 15}

Answer(phrase, length, keywords) ==
    [phrase |-> phrase, length |-> length, keywords |-> keywords]

Verdicts == {<<>>, <<[understanding |-> TRUE, confused |-> FALSE, confidence |-> 9]>>}

\* recommended_difficulty of predict_decision, <<>> when there is none
Predictions == {<<>>, <<-1>>, <<2>>, <<7>>}

\* results of the reasoning service for the diagnostic agent
ServiceResults ==
    {<<>>,
     <<[next_mode |-> "complete", has_level |-> TRUE, assessed_level |-> 7]>>,
     <<[next_mode |-> "complete", has_level |-> TRUE, assessed_level |-> -1]>>}

DiagAnswer(question_index, selected_option, correct_answer_index) ==
    [question_index |-> question_index, selected_option |-> selected_option,
     correct_answer_index |-> correct_answer_index]

\* batches posted to a learner's session: all correct, all unsure, one wrong
\* (8/9), two wrong (6/9, 4/9), and the single answer of a client that sends
\* no previous_answers
AllCorrectBatch == [i \in 1..5 |-> DiagAnswer(i - 1, 0, 0)]
AllUnsureBatch == [i \in 1..5 |-> DiagAnswer(i - 1, 4, 0)]
WrongAt(wrong) == [i \in 1..5 |-> DiagAnswer(i - 1, IF i \in wrong THEN 1 ELSE 0, 0)]

SessionBatches ==
    {AllCorrectBatch, AllUnsureBatch, WrongAt({1}), WrongAt({5}), WrongAt({4, 5}),
     <<DiagAnswer(4, 2, 2)>>}

Init ==
    /\ InitLearner
    /\ request = NoRequest
    /\ peer = InitPeer
    /\ now = 0
    /\ result = NoResult
    /\ answers = <<>>
    /\ diagnostic_result = NoDiagResult

----------------------------------------------------------------------------
(* Spec: one learner's session through every operation.  Quiz answers are   *)
(* multiple-choice on one question, or the free text "I don't know".        *)

ApiQuiz ==
    \/ \E is_correct \in BOOLEAN, intervention \in BOOLEAN :
          /\ Len(pending_clarifications) < MaxPending
          /\ SubmitQuizAnswer("q1", <<is_correct>>, Answer(FALSE, 17, FALSE), <<>>,
                              5, intervention, <<>>, now)
    \/ /\ Len(pending_clarifications) < MaxPending
       /\ SubmitQuizAnswer("q1", <<>>, Answer(TRUE, 12, FALSE), <<>>, 5, FALSE,
                           <<>>, now)

ApiLesson == \E skip_clarifications \in BOOLEAN, should_log \in BOOLEAN :
                GetNextLesson(skip_clarifications, should_log)

ApiCompleteClarification ==
    \E clarification_id \in {<<"q1", 0>>, <<"q2", 0>>} :
        CompleteClarification(clarification_id)

\* a question request (no input), and text answers with and without a
\* reasoning-service client, past the last question or not
ApiDiagnosticQuestion ==
    \/ RunDiagnostic(TRUE, FALSE, 0, <<>>)
    \/ \E service_result \in ServiceResults :
          RunDiagnostic(TRUE, TRUE, 5, service_result)
    \/ RunDiagnostic(FALSE, TRUE, 0, <<>>)

ApiDiagnostic ==
    \E batch \in SessionBatches :
        /\ DiagnosticFinalization(batch)
        /\ UNCHANGED <<answers, diagnostic_result>>

Next ==
    \/ ApiQuiz
    \/ ApiLesson
    \/ AdvanceToNextPage
    \/ AdvanceToNextModule
    \/ ApiCompleteClarification
    \/ ApiDiagnosticQuestion
    \/ ApiDiagnostic
    \/ RunCapstone
    \/ ResetUserState

Spec == Init /\ [][Next]_vars

----------------------------------------------------------------------------
(* SpecQuiz: the quiz side of a session on two questions, in both answer    *)
(* modes, with every reply of the personalization and reasoning services.   *)
(* Acceleration and navigation are explored in Spec.                        *)

\* multiple choice right and wrong; the free texts "I don't know", and "the
\* model predicts the next token" judged by the service and by the heuristic
\* the seconds the learner takes over each question, both under the
\* hesitation threshold
QuizHesitation(question_id) == IF question_id = "q1" THEN 5 ELSE 9

QuizSubmit ==
    \E question_id \in QuestionIds, prediction \in Predictions :
        /\ Len(pending_clarifications) < MaxPending
        /\ \/ \E is_correct \in BOOLEAN, intervention \in BOOLEAN :
                SubmitQuizAnswer(question_id, <<is_correct>>, Answer(FALSE, 17, FALSE),
                                 <<>>, QuizHesitation(question_id), intervention,
                                 prediction, now)
           \/ SubmitQuizAnswer(question_id, <<>>, Answer(TRUE, 12, FALSE), <<>>,
                               QuizHesitation(question_id), FALSE, prediction, now)
           \/ \E verdict \in Verdicts :
                SubmitQuizAnswer(question_id, <<>>, Answer(FALSE, 33, TRUE), verdict,
                                 QuizHesitation(question_id), FALSE, prediction, now)

QuizDiagnostic ==
    \E batch \in {AllUnsureBatch, WrongAt({5}), WrongAt({1})} :
        /\ DiagnosticFinalization(batch)
        /\ UNCHANGED <<answers, diagnostic_result>>

QuizNext ==
    \/ QuizSubmit
    \/ ApiDiagnosticQuestion
    \/ QuizDiagnostic
    \/ ApiCompleteClarification
    \/ ResetUserState

SpecQuiz == Init /\ [][QuizNext]_vars

----------------------------------------------------------------------------
(* SpecEval: LearningEngine.evaluate_answer applied to free-text answers,   *)
(* with and without a reply of the semantic-evaluation service.             *)

\* lengths around the thresholds 10, 15, 20, 40 and 50 of the heuristic
EvalLengths == {0, 5, 9, 10, 14, 15, 19, 20, 33, 40, 41, 49, 50}

\* the shortest confusion phrase ("dunno") has 5 characters, the shortest
\* understanding indicator ("data") has 4
EvalAnswers ==
    {answer \in [phrase : BOOLEAN, length : EvalLengths, keywords : BOOLEAN] :
        /\ answer.phrase => answer.length >= 5
        /\ answer.keywords => answer.length >= 4}

EvalVerdicts ==
    {<<>>} \cup {<< v >> : v \in [understanding : BOOLEAN,
                                      confused : BOOLEAN,
                                      confidence : {5, 9}]}

EvaluateAnswer ==
    \E answer \in EvalAnswers, verdict \in EvalVerdicts :
        /\ result' = [op |-> "evaluate_answer", answer |-> answer,
                      verdict |-> verdict,
                      evaluation |-> evaluate_answer(answer, verdict)]
        /\ UNCHANGED <<learner, storage, now, answers, diagnostic_result>>

EvalNext == EvaluateAnswer

SpecEval == Init /\ [][EvalNext]_vars

----------------------------------------------------------------------------
(* SpecClarify: the clarification queue of one learner.  Answers are given  *)
(* while the clock stands or after it moved on a second; clarifications are *)
(* served, by /api/clarification and by get_next_lesson, and completed.     *)

\* multiple choice right and wrong, "I don't know", and "the model predicts
\* the next token" judged by the heuristic
ClarifySubmit ==
    \E question_id \in QuestionIds, t \in {now, now + 1} :
        /\ t <= MaxClock
        /\ \/ SubmitQuizAnswer(question_id, << TRUE >>, Answer(FALSE, 17, FALSE),
                               <<>>, 5, FALSE, <<>>, t)
           \/ /\ Len(pending_clarifications) < MaxQueue
              /\ SubmitQuizAnswer(question_id, << FALSE >>, Answer(FALSE, 17, FALSE),
                                  <<>>, 5, FALSE, <<>>, t)
           \/ /\ Len(pending_clarifications) < MaxQueue
              /\ SubmitQuizAnswer(question_id, <<>>, Answer(TRUE, 12, FALSE),
                                  <<>>, 5, FALSE, <<>>, t)
           \/ SubmitQuizAnswer(question_id, <<>>, Answer(FALSE, 33, TRUE),
                               <<>>, 5, FALSE, <<>>, t)

ClarifyLesson ==
    \E skip_clarifications \in BOOLEAN : GetNextLesson(skip_clarifications, FALSE)

ClarifyComplete ==
    \E clarification_id \in QuestionIds \X (0..MaxClock) :
        CompleteClarification(clarification_id)

ClarifyNext ==
    \/ ClarifySubmit
    \/ ApiGetClarification
    \/ ClarifyLesson
    \/ ClarifyComplete
    \/ ResetUserState

SpecClarify == Init /\ [][ClarifyNext]_vars

----------------------------------------------------------------------------
(* SpecNav: the progression of one learner through the modules, by lesson   *)
(* requests, page and module advances, diagnostic finalization with and     *)
(* without acceleration, the capstone and reset.                            *)

NavDiagnostic ==
    \E batch \in {AllCorrectBatch, WrongAt({5})} :
        /\ DiagnosticFinalization(batch)
        /\ UNCHANGED <<answers, diagnostic_result>>

NavLesson == GetNextLesson(TRUE, FALSE)

NavNext ==
    \/ NavLesson
    \/ AdvanceToNextPage
    \/ AdvanceToNextModule
    \/ NavDiagnostic
    \/ RunCapstone
    \/ ResetUserState

SpecNav == Init /\ [][NavNext]_vars

----------------------------------------------------------------------------
(* SpecAdapter: UserStateManager.record_quiz_attempt called directly, as    *)
(* test_state_manager does, with the personalization service unavailable.   *)

AttemptIds == <<"q1", "q2", "q3", "q4", "q5", "q6", "q7">>

AdapterRecord ==
    \E correct \in BOOLEAN, hesitation_seconds \in Hesitations :
        /\ Len(quiz_performance) < MaxAttempts
        /\ Len(quiz_performance) < Len(AttemptIds)
        /\ RecordQuizAttempt(AttemptIds[Len(quiz_performance) + 1], correct,
                             hesitation_seconds, <<>>)

AdapterNext == AdapterRecord

SpecAdapter == Init /\ [][AdapterNext]_vars

----------------------------------------------------------------------------
(* SpecDiag: one diagnostic batch, scored by a direct call of               *)
(* calculate_diagnostic_level or by the final request of /api/diagnostic.   *)

\* (selected_option, correct_answer_index) of one answer: right, wrong, unsure
AnswerChoices == {<<0, 0>>, <<3, 3>>, <<0, 3>>, <<3, 0>>, <<4, 0>>, <<4, 3>>}

\* the question answered at position i of a batch of n answers that ends with
\* the last question: in the order asked, or the earlier ones back to front
QuestionOrders == {"asked", "reversed"}

AskedIndex(n, i) == Max(0, i - 1 + NumDiagnosticQuestions - n)

QuestionIndex(order, n, i) ==
    IF order = "asked" \/ i = n THEN AskedIndex(n, i) ELSE AskedIndex(n, n - i)

\* the batch of n answers with the choices c, answered in the given order
Batch(order, n, c) ==
    IF n = 0 THEN <<>>
    ELSE [i \in 1..n |-> DiagAnswer(QuestionIndex(order, n, i), c[i][1], c[i][2])]

InitDiag ==
    /\ InitLearner
    /\ request = NoRequest
    /\ peer = InitPeer
    /\ now = 0
    /\ result = NoResult
    /\ \E n \in 0..MaxBatch, order \in QuestionOrders :
          \E c \in [1..n -> AnswerChoices] : answers = Batch(order, n, c)
    /\ diagnostic_result = NoDiagResult

\* engine.calculate_diagnostic_level(answers)
CalculateDiagnosticLevel ==
    /\ diagnostic_result.stage = "none"
    /\ diagnostic_result' = calculate_diagnostic_level(answers)
    /\ UNCHANGED <<learner, storage, now, result, answers>>

\* POST /api/diagnostic with all_answers = answers
ApiDiagnosticFinal ==
    /\ diagnostic_result.stage = "none"
    /\ DiagnosticFinalization(answers)
    /\ diagnostic_result' = calculate_diagnostic_level(answers)
    /\ UNCHANGED answers

DiagNext == CalculateDiagnosticLevel \/ ApiDiagnosticFinal

SpecDiag == InitDiag /\ [][DiagNext]_vars

----------------------------------------------------------------------------
(* SpecStore: two learners on one user_progress.json.  Each engine runs in  *)
(* its own request thread (or process); save_state reads the record list    *)
(* and rewrites it in two steps, and steps of the two learners interleave.  *)

\* get_engine for a user_id not yet in engines (a fresh server process):
\* LearningEngine(user_id) loads the learner's record from the file
GetEngine ==
    /\ request = NoRequest
    /\ LET user_data == load_or_initialize_state(store, user_id) IN
        /\ current_module' = user_data.current_module
        /\ current_page' = user_data.current_page
        /\ difficulty_level' = user_data.difficulty_level
        /\ completed_modules' = user_data.completed_modules
        /\ quiz_performance' = user_data.quiz_performance
        /\ hesitation_history' = user_data.hesitation_history
        /\ preferred_learning_style' = user_data.preferred_learning_style
        /\ pending_clarifications' = user_data.pending_clarifications
        /\ result' = [op |-> "load_state", state |-> user_data]
    /\ UNCHANGED <<storage, now, answers, diagnostic_result>>

\* set_learning_style(style) up to save_state's read of the file
SetLearningStyle(style) ==
    /\ request = NoRequest
    /\ style \in LearningStyles
    /\ preferred_learning_style' = style
    /\ request' = [op |-> "save_state", all_users |-> store]
    /\ UNCHANGED <<current_module, current_page, difficulty_level, completed_modules,
                   quiz_performance, hesitation_history, pending_clarifications,
                   store, peer, now, result, answers, diagnostic_result>>

\* save_state from the list it read: filter, append, rewrite the file
SaveStateRewrite ==
    /\ request.op = "save_state"
    /\ store' = WithoutUser(request.all_users, user_id) \o <<Record>>
    /\ request' = NoRequest
    /\ result' = [op |-> "save_state"]
    /\ UNCHANGED <<learner, peer, now, answers, diagnostic_result>>

\* the same two steps in the second learner's engine
PeerSetLearningStyle(style) ==
    /\ ~peer.saving
    /\ style \in LearningStyles
    /\ peer' = [state |-> [peer.state EXCEPT !.preferred_learning_style = style],
                saving |-> TRUE, all_users |-> store]
    /\ UNCHANGED <<learner, store, request, now, result, answers, diagnostic_result>>

PeerSaveStateRewrite ==
    /\ peer.saving
    /\ store' = WithoutUser(peer.all_users, peer_id) \o <<peer.state>>
    /\ peer' = [peer EXCEPT !.saving = FALSE, !.all_users = <<>>]
    /\ UNCHANGED <<learner, request, now, result, answers, diagnostic_result>>

StoreNext ==
    \/ GetEngine
    \/ \E style \in LearningStyles : SetLearningStyle(style)
    \/ SaveStateRewrite
    \/ \E style \in LearningStyles : PeerSetLearningStyle(style)
    \/ PeerSaveStateRewrite

SpecStore == Init /\ [][StoreNext]_vars

----------------------------------------------------------------------------
(* SpecScore: calculate_diagnostic_level called on its own between the      *)
(* requests that change the learner record.                                 *)

ScoreCalculateStoring(batch) ==
    /\ answers' = batch
    /\ diagnostic_result' = calculate_diagnostic_level(batch)
    /\ difficulty_level' = diagnostic_result'.level
    /\ UNCHANGED <<current_module, current_page, completed_modules, quiz_performance,
                   hesitation_history, preferred_learning_style,
                   pending_clarifications, storage, now, result>>

\* engine.calculate_diagnostic_level(batch); answers keeps the batch of the
\* last call and diagnostic_result what it returned
ScoreCalculate(batch) ==
    /\ answers' = batch
    /\ diagnostic_result' = calculate_diagnostic_level(batch)
    /\ UNCHANGED <<learner, storage, now, result>>

\* POST /api/diagnostic with all_answers = the batch of the last call: the
\* handler scores the batch again
ScoreDiagnostic ==
    /\ diagnostic_result.stage # "none"
    /\ DiagnosticFinalization(answers)
    /\ UNCHANGED <<answers, diagnostic_result>>

ScoreNext ==
    \/ \E batch \in SessionBatches \cup {<<>>} : ScoreCalculate(batch)
    \/ ScoreDiagnostic
    \/ ResetUserState

SpecScore == Init /\ [][ScoreNext]_vars

----------------------------------------------------------------------------
(* SpecPersist: submit_quiz_answer taken one save_state at a time.  request *)
(* holds what the call has computed so far; store shows what a reader of    *)
(* the file finds between the steps.                                        *)

\* lines 886-950: evaluate, append the clarification unit and save, then ask
\* the personalization service about an intervention
SubmitEvaluate(question_id, override, answer, verdict, hesitation_seconds, intervention, prediction) ==
    LET evaluation == IF override # <<>>
                      THEN Evaluation(override[1], FALSE, 5, "override")
                      ELSE evaluate_answer(answer, verdict)
        is_correct == evaluation.is_correct
        clarify == ~is_correct /\ current_module # "clarification"
    IN  /\ request = NoRequest
        /\ pending_clarifications' =
              IF clarify
              THEN Append(pending_clarifications,
                          ClarificationUnit(question_id, now, current_module))
              ELSE pending_clarifications
        /\ request' = [op |-> "submit_quiz_answer", pc |-> "record",
                       question_id |-> question_id, is_correct |-> is_correct,
                       is_confused |-> evaluation.is_confused \/ intervention,
                       hesitation_seconds |-> hesitation_seconds,
                       prediction |-> prediction, override |-> override # <<>>,
                       recorded |-> FALSE, adapted |-> difficulty_level]
        /\ UNCHANGED <<current_module, current_page, difficulty_level,
                       completed_modules, quiz_performance, hesitation_history,
                       preferred_learning_style, peer, now, result, answers,
                       diagnostic_result>>
        /\ IF clarify THEN Persist ELSE UNCHANGED store

\* lines 952-965: the deduplication check and record_quiz_attempt, which saves;
\* the call returns here when the answer is not confused
SubmitRecord ==
    /\ request.op = "submit_quiz_answer"
    /\ request.pc = "record"
    /\ LET already_answered == AlreadyAnswered(request.question_id)
           qp == Append(quiz_performance,
                        Attempt(request.question_id, request.is_correct,
                                request.hesitation_seconds, difficulty_level))
           adapted == IF already_answered THEN difficulty_level
                      ELSE adjust_difficulty(qp, difficulty_level, request.prediction)
       IN  /\ quiz_performance' = IF already_answered THEN quiz_performance ELSE qp
           /\ hesitation_history' =
                 IF already_answered THEN hesitation_history
                 ELSE Append(hesitation_history, request.hesitation_seconds)
           /\ difficulty_level' = adapted
           /\ IF request.is_confused
              THEN /\ request' = [request EXCEPT !.pc = "adapt",
                                                 !.recorded = ~already_answered,
                                                 !.adapted = adapted]
                   /\ UNCHANGED result
              ELSE /\ request' = NoRequest
                   /\ result' = SubmitResult(~already_answered, request.is_correct,
                                             FALSE, request.override, adapted)
           /\ UNCHANGED <<current_module, current_page, completed_modules,
                          preferred_learning_style, pending_clarifications, peer,
                          now, answers, diagnostic_result>>
           /\ IF already_answered THEN UNCHANGED store ELSE Persist

\* lines 968-975 and 990-996: the adaptation to a confused answer, saved
SubmitAdapt ==
    /\ request.op = "submit_quiz_answer"
    /\ request.pc = "adapt"
    /\ difficulty_level' = ConfusionDecrease(difficulty_level)
    /\ preferred_learning_style' = "examples"
    /\ request' = NoRequest
    /\ result' = SubmitResult(request.recorded, request.is_correct, TRUE,
                              request.override, request.adapted)
    /\ UNCHANGED <<current_module, current_page, completed_modules,
                   quiz_performance, hesitation_history, pending_clarifications,
                   peer, now, answers, diagnostic_result>>
    /\ Persist

PersistSubmit ==
    \E question_id \in QuestionIds, is_correct \in BOOLEAN, intervention \in BOOLEAN :
        /\ Len(pending_clarifications) < MaxQueue
        /\ SubmitEvaluate(question_id, <<is_correct>>, Answer(FALSE, 17, FALSE), <<>>,
                          QuizHesitation(question_id), intervention, <<>>)

PersistReset == request = NoRequest /\ ResetUserState

PersistNext ==
    \/ PersistSubmit
    \/ SubmitRecord
    \/ SubmitAdapt
    \/ PersistReset

SpecPersist == Init /\ [][PersistNext]_vars

----------------------------------------------------------------------------
(* SpecPresent: the reasoning-service runner asked for the diagnostic       *)
(* question at an index, over every outcome of the shuffle.                 *)

\* run_diagnostic_agent({"raw_input", "question_index"}) as the caller sees
\* it: next_mode and, for a local question, the question_payload
RunDiagnosticAgent(client, user_input, question_index, service_result, shuffle) ==
    LET agent_result ==
            run_diagnostic_agent(client, user_input, question_index, service_result)
    IN  /\ result' = [op |-> "run_diagnostic_agent",
                      client |-> client,
                      service_result |-> service_result,
                      returned |-> call_liquidmetal_agent(client, service_result),
                      question_index |-> question_index,
                      next_mode |-> agent_result.next_mode,
                      question_payload |->
                          IF agent_result.next_mode = "multiple_choice"
                          THEN <<QuestionPayload(question_index, shuffle)>>
                          ELSE <<>>]
        /\ UNCHANGED <<learner, storage, now, answers, diagnostic_result>>

PresentNext ==
    \E client \in BOOLEAN, question_index \in 0..NumDiagnosticQuestions :
        \E service_result \in ServiceResults, shuffle \in Shuffles :
            RunDiagnosticAgent(client, client, question_index, service_result, shuffle)

SpecPresent == Init /\ [][PresentNext]_vars

----------------------------------------------------------------------------
(* SpecModules: navigation through the modules with incorrect answers       *)
(* queueing clarifications that get_next_lesson serves on the way.          *)

ModulesLesson ==
    \E skip_clarifications \in BOOLEAN : GetNextLesson(skip_clarifications, FALSE)

\* an incorrect multiple-choice answer to the question q1
ModulesSubmit ==
    /\ Len(pending_clarifications) < MaxPending
    /\ SubmitQuizAnswer("q1", << FALSE >>, Answer(FALSE, 17, FALSE), <<>>, 5, FALSE, <<>>, now)

ModulesNext ==
    \/ ModulesLesson
    \/ ModulesSubmit
    \/ AdvanceToNextPage
    \/ AdvanceToNextModule
    \/ NavDiagnostic
    \/ RunCapstone
    \/ ResetUserState

SpecModules == Init /\ [][ModulesNext]_vars

----------------------------------------------------------------------------
(* SpecOffline: quiz answers with the personalization service unavailable:  *)
(* no intervention and no recommended difficulty.                           *)

\* a multiple-choice answer, the free text "I don't know", or a free-text
\* answer of 33 characters with a keyword and no semantic service
OfflineSubmit ==
    \E question_id \in QuestionIds :
        /\ Len(pending_clarifications) < MaxQueue
        /\ \/ \E is_correct \in BOOLEAN :
                SubmitQuizAnswer(question_id, <<is_correct>>, Answer(FALSE, 17, FALSE), <<>>, QuizHesitation(question_id), FALSE, <<>>, now)
           \/ SubmitQuizAnswer(question_id, <<>>, Answer(TRUE, 12, FALSE), <<>>, QuizHesitation(question_id), FALSE, <<>>, now)
           \/ SubmitQuizAnswer(question_id, <<>>, Answer(FALSE, 33, TRUE), <<>>, QuizHesitation(question_id), FALSE, <<>>, now)

OfflineNext ==
    \/ OfflineSubmit
    \/ QuizDiagnostic
    \/ ResetUserState

SpecOffline == Init /\ [][OfflineNext]_vars

----------------------------------------------------------------------------
(* SpecQuestions: the check questions of a lesson page, over the pages, the *)
(* number of questions the lesson agent returns and the answered ids.       *)

\* the question ids of a module that quiz_performance may hold
ModuleQuestionIds(module_name) ==
    {QuestionId(module_name, i) : i \in 0..(MaxCheckQuestions - 1)}

\* get_next_lesson up to its check_questions, for a page of a module
LessonCheckQuestions ==
    \E module_name \in {"fundamentals", "transformers_llms"} :
        \E page \in 0..(MaxCheckQuestions + 1), n \in 0..MaxCheckQuestions :
            \E answered_question_ids \in SUBSET ModuleQuestionIds(module_name) :
                /\ result' = [op |-> "check_questions", module_name |-> module_name,
                              current_page |-> page, n |-> n,
                              answered_question_ids |-> answered_question_ids,
                              check_questions |->
                                  CheckQuestions(module_name, page, n,
                                                 answered_question_ids)]
                /\ UNCHANGED <<learner, storage, now, answers, diagnostic_result>>

QuestionsNext == LessonCheckQuestions

SpecQuestions == Init /\ [][QuestionsNext]_vars

----------------------------------------------------------------------------
(* SpecStreak: record_quiz_attempt called in a row on the state manager,    *)
(* on distinct question ids, from every difficulty a diagnostic can leave.  *)

\* the diagnostic finalization of a learner who has answered no quiz yet:
\* levels 0, 1, 2 and 3
StreakDiagnostic ==
    /\ quiz_performance = <<>>
    /\ \E batch \in {AllUnsureBatch, WrongAt({4, 5}), WrongAt({5}), WrongAt({1})} :
          /\ DiagnosticFinalization(batch)
          /\ UNCHANGED <<answers, diagnostic_result>>

StreakRecord ==
    \E correct \in BOOLEAN, hesitation_seconds \in {5, 15} :
        /\ Len(quiz_performance) < MaxStreak
        /\ Len(quiz_performance) < Len(AttemptIds)
        /\ RecordQuizAttempt(AttemptIds[Len(quiz_performance) + 1], correct, hesitation_seconds, <<>>)

StreakNext ==
    \/ StreakDiagnostic
    \/ StreakRecord

SpecStreak == Init /\ [][StreakNext]_vars

----------------------------------------------------------------------------
(* Claims *)

\* C1: in every reachable state of a learner record difficulty_level is an
\* integer between 0 and 3, after quiz submissions in either mode (first or
\* repeated, confused or not), diagnostic requests, the diagnostic
\* finalization and resets, whatever the personalization and reasoning
\* services return.
C1_DifficultyInRange ==
    difficulty_level \in MinDifficulty..MaxDifficulty

\* the adapter ran on two attempts and a recommendation above the range left
\* the difficulty at its ceiling
C1_Witness ==
    /\ result.op = "submit_quiz_answer"
    /\ result.recorded
    /\ Len(quiz_performance) = 2
    /\ quiz_performance[2].difficulty_level < MaxDifficulty
    /\ difficulty_level = MaxDifficulty

CountOf(question_id) ==
    Cardinality({i \in 1..Len(quiz_performance) :
                    quiz_performance[i].question_id = question_id})

AnsweredIds == {quiz_performance[i].question_id : i \in 1..Len(quiz_performance)}

\* C2: quiz_performance never holds two entries with one question_id, and a
\* submit_quiz_answer step appends an attempt only for a question_id not yet
\* answered; a step that appends nothing (a resubmission) leaves
\* quiz_performance and hesitation_history as they were and does not run the
\* Difficulty Adapter: difficulty_level changes by the confusion decrease or
\* not at all.
C2_ResubmissionRecordsNothing ==
    /\ [](\A question_id \in QuestionIds : CountOf(question_id) <= 1)
    /\ [][result'.op = "submit_quiz_answer" =>
            IF result'.recorded
            THEN /\ Len(quiz_performance') = Len(quiz_performance) + 1
                 /\ quiz_performance'[Len(quiz_performance')].question_id
                       \notin AnsweredIds
            ELSE /\ quiz_performance' = quiz_performance
                 /\ hesitation_history' = hesitation_history
                 /\ difficulty_level' =
                       IF result'.is_confused
                       THEN Max(0, difficulty_level - 1) ELSE difficulty_level
         ]_vars

\* a resubmission on a record with two attempts, where the adapter would act
C2_Witness ==
    /\ result.op = "submit_quiz_answer"
    /\ ~result.recorded
    /\ Len(quiz_performance) = 2
    /\ \A question_id \in QuestionIds : CountOf(question_id) = 1

\* the next module of the sequence exists and is a coming-soon module
NextIsComingSoon ==
    /\ Contains(module_sequence, current_module)
    /\ IndexOf(current_module) < Len(module_sequence)
    /\ module_sequence[IndexOf(current_module) + 1] \in ComingSoonModules

OnLastPage == ~(current_page + 1 < get_module_page_count(current_module))

\* C3: an advance_to_next_page or advance_to_next_module call that computes a
\* coming-soon next module returns advanced=false, coming_soon=true and
\* leaves the whole learner record unchanged.
C3_RefusedAdvanceLeavesRecord ==
    [][(/\ NextIsComingSoon
        /\ \/ result'.op = "advance_to_next_module"
           \/ result'.op = "advance_to_next_page" /\ OnLastPage)
       => /\ ~result'.advanced
          /\ result'.coming_soon
          /\ UNCHANGED learner]_vars

\* C4: current_module is never a coming-soon module.
C4_NeverInComingSoonModule ==
    current_module \notin ComingSoonModules

\* C5: an advance_to_next_page step that increments current_page leaves
\* current_module unchanged, and an advance_to_next_page or
\* advance_to_next_module step that changes current_module leaves
\* current_page at 0.
C5_PageAndModuleAdvance ==
    [][/\ (result'.op = "advance_to_next_page" /\ current_page' = current_page + 1
             => current_module' = current_module)
       /\ (result'.op \in {"advance_to_next_page", "advance_to_next_module"}
             /\ current_module' # current_module
             => current_page' = 0)]_vars

Scored == diagnostic_result.stage # "none"

Unsure(batch) ==
    {i \in 1..Len(batch) : batch[i].selected_option = UnsureOption}

Correct(batch) ==
    {i \in 1..Len(batch) : /\ batch[i].selected_option # UnsureOption
                           /\ batch[i].selected_option = batch[i].correct_answer_index}

RECURSIVE WeightSum(_, _)
WeightSum(batch, positions) ==
    IF positions = {} THEN 0
    ELSE LET i == CHOOSE j \in positions : TRUE
         IN  <<1, 1, 2, 2, 3>>[batch[i].question_index + 1]
                + WeightSum(batch, positions \ {i})

\* the level C6 states for a batch of 5 answers
StatedLevel(batch) ==
    LET numerator == WeightSum(batch, Correct(batch))
        denominator == WeightSum(batch, (1..Len(batch)) \ Unsure(batch))
    IN  IF Cardinality(Unsure(batch)) = 5 THEN 0
        ELSE IF Cardinality(Correct(batch)) = 5 THEN 3
        ELSE IF Cardinality(Correct(batch)) = 0 THEN 0
        ELSE IF Cardinality(Unsure(batch)) >= 3 THEN 0
        ELSE IF 10 * numerator >= 8 * denominator THEN 3
        ELSE IF 10 * numerator >= 6 * denominator THEN 2
        ELSE IF 10 * numerator >= 4 * denominator THEN 1
        ELSE 0

\* C6: for every batch of exactly 5 answers calculate_diagnostic_level
\* returns the level of the first matching rule: 5 unsure gives 0, 5 correct
\* gives 3, no correct gives 0, 3 or more unsure gives 0, otherwise the
\* weighted share of correct answers among the answers that are not unsure
\* (weights 1,1,2,2,3 by question_index) mapped >= 0.8 to 3, >= 0.6 to 2,
\* >= 0.4 to 1, else 0.
C6_LevelOfFiveAnswers ==
    Scored /\ Len(answers) = 5 => diagnostic_result.level = StatedLevel(answers)

\* a batch of 5 with two unsure answers whose weighted share is exactly 0.6
C6_Witness ==
    /\ Scored
    /\ Len(answers) = 5
    /\ Cardinality(Unsure(answers)) = 2
    /\ 5 * WeightSum(answers, Correct(answers))
          = 3 * WeightSum(answers, (1..5) \ Unsure(answers))
    /\ diagnostic_result.level = 2

\* C7: the final request of /api/diagnostic gets all_unsure=true only when
\* the batch holds exactly 5 answers and all 5 select the unsure option.
C7_AllUnsureOnlyForFive ==
    result.op = "api_diagnostic" /\ diagnostic_result.all_unsure
        => Len(answers) = 5 /\ Cardinality(Unsure(answers)) = 5

\* C8: the final request of /api/diagnostic gets all_correct=true, and
\* accelerates the learner, only when the batch holds exactly 5 answers and
\* all 5 are correct.
C8_AllCorrectOnlyForFive ==
    result.op = "api_diagnostic" /\ (diagnostic_result.all_correct \/ result.advanced)
        => Len(answers) = 5 /\ Cardinality(Correct(answers)) = 5

\* C9: calculate_diagnostic_level never divides by zero: the empty batch
\* returns level 1 with both flags false, and whenever the count rules let a
\* batch through to the average, total_weight is greater than 0, so the
\* branch for total_weight = 0 is never taken.
C9_NoDivisionByZero ==
    Scored =>
        /\ answers = <<>> => diagnostic_result = DiagResult(1, FALSE, FALSE, "empty")
        /\ diagnostic_result.stage # "no_weight"
        /\ diagnostic_result.stage = "average"
              => Tally(answers, Len(answers)).total_weight > 0

\* an average taken over correct answers only, the unsure ones left out
C9_Witness ==
    /\ diagnostic_result.stage = "average"
    /\ Cardinality(Unsure(answers)) > 0
    /\ Cardinality(Correct(answers)) + Cardinality(Unsure(answers)) = Len(answers)

\* the difficulty C10 states after an attempt, from the attempts recorded
\* (the new one included) and the difficulty d before
StatedDifficulty(qp, d) ==
    IF Len(qp) < 2 THEN d
    ELSE LET a == qp[Len(qp) - 1]
             b == qp[Len(qp)]
         IN  IF /\ a.correct /\ b.correct
                /\ a.hesitation_seconds < 10 /\ b.hesitation_seconds < 10
             THEN Min(3, d + 1)
             ELSE IF \/ ~a.correct /\ ~b.correct
                     \/ a.hesitation_seconds > 10 /\ b.hesitation_seconds > 10
             THEN Max(0, d - 1)
             ELSE d

\* C10: with the advisory service unavailable record_quiz_attempt leaves the
\* difficulty d unchanged while fewer than 2 attempts are recorded; otherwise
\* the two most recent attempts alone decide: min(3, d+1) when both are
\* correct with hesitation < 10, else max(0, d-1) when both are incorrect or
\* both have hesitation > 10, else d.
C10_AdapterRule ==
    [][/\ Len(quiz_performance') = Len(quiz_performance) + 1
       /\ difficulty_level' = StatedDifficulty(quiz_performance', difficulty_level)
      ]_vars

\* a third attempt with hesitation exactly 10 after a wrong first one: the
\* last two are correct, and neither rule fires
C10_Witness ==
    /\ Len(quiz_performance) = 3
    /\ ~quiz_performance[1].correct
    /\ quiz_performance[2].correct /\ quiz_performance[3].correct
    /\ quiz_performance[2].hesitation_seconds = 5
    /\ quiz_performance[3].hesitation_seconds = 10
    /\ difficulty_level = quiz_performance[3].difficulty_level

Submitted == result.op = "submit_quiz_answer"

\* C11: a submission whose is_confused is true leaves difficulty_level one
\* below what the Difficulty Adapter left in that call (not below 0) and
\* preferred_learning_style at "examples", on a first submission and on a
\* resubmission alike; on a resubmission the adapter has not run, so the
\* decrease is from the difficulty found.
C11_ConfusionSideEffect ==
    [][result'.op = "submit_quiz_answer" /\ result'.is_confused
          => /\ difficulty_level' = Max(0, result'.adapted - 1)
             /\ preferred_learning_style' = "examples"
             /\ ~result'.recorded => result'.adapted = difficulty_level
      ]_vars

\* a confused resubmission that took the difficulty from 2 to 1
C11_Witness ==
    /\ Submitted /\ result.is_confused /\ ~result.recorded
    /\ result.adapted = 2
    /\ difficulty_level = 1
    /\ preferred_learning_style = "examples"

\* C12: a submission in override mode returns the override as correct and
\* is_confused = false, whatever the personalization service answers.
C12_OverrideNeverConfused ==
    Submitted /\ result.override => ~result.is_confused

Evaluated == result.op = "evaluate_answer"

\* C13: an answer whose lowercased text contains a confusion phrase is
\* evaluated is_correct = false, is_confused = true, confidence = 0.0 by the
\* first return of evaluate_answer, before the semantic-evaluation service is
\* asked and before the length/keyword heuristic, whatever its length and
\* keywords and whatever the service would have said.
C13_ConfusionPhraseReturnsFirst ==
    Evaluated /\ result.answer.phrase
        => /\ ~result.evaluation.is_correct
           /\ result.evaluation.is_confused
           /\ result.evaluation.confidence = 0
           /\ result.evaluation.stage = "confusion_phrase"

\* a long answer with keywords and a confusion phrase, for which the service
\* stood ready with a verdict of understanding
C13_Witness ==
    /\ Evaluated
    /\ result.answer.phrase /\ result.answer.keywords /\ result.answer.length >= 20
    /\ result.verdict # <<>> /\ result.verdict[1].understanding
    /\ result.evaluation.stage = "confusion_phrase"

\* the learner is being served a pending clarification
InClarificationFlow ==
    \/ result.op = "api_get_clarification"
    \/ result.op = "get_next_lesson" /\ result.is_clarification

PendingIds == {pending_clarifications[i].module_id :
                  i \in 1..Len(pending_clarifications)}

\* C14: submit_quiz_answer appends exactly one unit at the tail of
\* pending_clarifications when the answer is judged incorrect and the learner
\* is not being served a pending clarification, and none when the answer is
\* judged correct or the learner is being served one; the new unit carries
\* the submitted question id and the module current at submission.
C14_OneUnitPerIncorrectAnswer ==
    [][result'.op = "submit_quiz_answer" =>
          IF ~result'.correct /\ ~InClarificationFlow
          THEN /\ Len(pending_clarifications') = Len(pending_clarifications) + 1
               /\ SubSeq(pending_clarifications', 1, Len(pending_clarifications))
                     = pending_clarifications
               /\ pending_clarifications'[Len(pending_clarifications')].source_module
                     = current_module
               /\ result'.recorded =>
                     pending_clarifications'[Len(pending_clarifications')].question_id
                        = quiz_performance'[Len(quiz_performance')].question_id
          ELSE pending_clarifications' = pending_clarifications
      ]_vars

\* C15: complete_clarification with an id that matches no pending unit
\* returns false and leaves pending_clarifications as it was; completing the
\* id of a successful completion once more returns false.
C15_UnknownIdIsNoOp ==
    [][result'.op = "complete_clarification" =>
          /\ result'.clarification_id \notin PendingIds
                => ~result'.removed
                   /\ pending_clarifications' = pending_clarifications
          /\ (/\ result.op = "complete_clarification"
              /\ result.removed
              /\ result.clarification_id = result'.clarification_id)
                => ~result'.removed
      ]_vars

\* a completion refused while a unit of the same question, created at
\* another clock value, stays pending
C15_Witness ==
    /\ result.op = "complete_clarification"
    /\ ~result.removed
    /\ Len(pending_clarifications) = 1
    /\ result.clarification_id[1] = pending_clarifications[1].question_id
    /\ result.clarification_id # pending_clarifications[1].module_id

\* pending without its i-th unit
WithoutIndex(pending, i) ==
    SubSeq(pending, 1, i - 1) \o SubSeq(pending, i + 1, Len(pending))

\* C16: complete_clarification with an id present in pending_clarifications
\* returns true and removes exactly one unit, the one with that id; the
\* other units keep their order.
C16_RemovesExactlyOne ==
    [][(/\ result'.op = "complete_clarification"
        /\ result'.clarification_id \in PendingIds)
          => /\ result'.removed
             /\ \E i \in 1..Len(pending_clarifications) :
                   /\ pending_clarifications[i].module_id = result'.clarification_id
                   /\ pending_clarifications'
                         = WithoutIndex(pending_clarifications, i)
      ]_vars

\* C17: no two units of pending_clarifications have the same module_id.
C17_UniqueClarificationIds ==
    \A i, j \in 1..Len(pending_clarifications) :
        pending_clarifications[i].module_id = pending_clarifications[j].module_id
            => i = j

Advanced(op) == op = "advance_to_next_page" \/ op = "advance_to_next_module"

\* C18: an advance called in build_todo_agent or in a module outside the
\* module sequence returns advanced = false and coming_soon = false and
\* leaves the learner record, current_page included, unchanged.
C18_AdvanceAtBoundaryIsNoOp ==
    [][(/\ Advanced(result'.op)
        /\ \/ current_module = "build_todo_agent"
           \/ ~Contains(module_sequence, current_module))
          => /\ ~result'.advanced
             /\ ~result'.coming_soon
             /\ UNCHANGED learner
      ]_vars

\* C19 as stated: every get_next_lesson call made in diagnostic moves the
\* learner to fundamentals and appends diagnostic to completed_modules; a
\* call made in another module leaves current_module alone.
C19_AnyLessonCallLeavesDiagnostic ==
    [][result'.op = "get_next_lesson" =>
          IF current_module = "diagnostic"
          THEN /\ current_module' = "fundamentals"
               /\ completed_modules' = Append(completed_modules, "diagnostic")
          ELSE current_module' = current_module
      ]_vars

\* C19, amended: a get_next_lesson call made in diagnostic that returns a
\* lesson moves the learner to fundamentals and appends diagnostic to
\* completed_modules; a call that returns a pending clarification
\* (skip_clarifications = false with a unit pending) and a call made in
\* another module leave current_module and completed_modules alone.
C19_LessonCallLeavesDiagnostic ==
    [][result'.op = "get_next_lesson" =>
          IF current_module = "diagnostic" /\ ~result'.is_clarification
          THEN /\ current_module' = "fundamentals"
               /\ completed_modules' = Append(completed_modules, "diagnostic")
          ELSE /\ current_module' = current_module
               /\ completed_modules' = completed_modules
      ]_vars

\* the lesson that took the learner out of diagnostic, a clarification
\* still pending
C19_Witness ==
    /\ result.op = "get_next_lesson" /\ ~result.is_clarification
    /\ current_module = "fundamentals"
    /\ completed_modules = <<"diagnostic">>
    /\ pending_clarifications # <<>>

IsPrefix(s, t) == Len(s) <= Len(t) /\ SubSeq(t, 1, Len(s)) = s

\* C20: completed_modules never holds a module twice; every operation but
\* reset_user_state only appends to it, and a change of current_module
\* appends the module left exactly when it is not yet a member.
C20_CompletedModulesAppendOnly ==
    /\ [](\A i, j \in 1..Len(completed_modules) :
             completed_modules[i] = completed_modules[j] => i = j)
    /\ [][result'.op # "reset_user_state" =>
             /\ IsPrefix(completed_modules, completed_modules')
             /\ current_module' # current_module =>
                   completed_modules' =
                      IF Contains(completed_modules, current_module)
                      THEN completed_modules
                      ELSE Append(completed_modules, current_module)
         ]_vars

\* three modules completed, the last of them the one the learner is in
C20_Witness ==
    /\ current_module = "capstone_completed"
    /\ Len(completed_modules) = 3
    /\ completed_modules[3] = "capstone_completed"

\* C21: current_module becomes capstone_completed only in a run_capstone
\* call, and from capstone_completed no operation but reset_user_state
\* changes current_module.
C21_CapstoneOnlyByRunCapstone ==
    [][/\ (current_module # "capstone_completed"
              /\ current_module' = "capstone_completed")
          => result'.op = "run_capstone"
       /\ (current_module = "capstone_completed"
              /\ result'.op # "reset_user_state")
          => current_module' = "capstone_completed"
      ]_vars

\* an all-correct diagnostic finalization answered in capstone_completed,
\* reached from build_todo_agent
C21_Witness ==
    /\ current_module = "capstone_completed"
    /\ Contains(completed_modules, "build_todo_agent")
    /\ result.op = "api_diagnostic" /\ result.correct

\* C22: every operation but reset_user_state leaves quiz_performance and
\* hesitation_history prefixes of what they become, and in every state the
\* two have the same length and hesitation_history[i] is the
\* hesitation_seconds of quiz_performance[i].
C22_LogsAppendOnlyAndParallel ==
    /\ [](/\ Len(hesitation_history) = Len(quiz_performance)
          /\ \A i \in 1..Len(quiz_performance) :
                hesitation_history[i] = quiz_performance[i].hesitation_seconds)
    /\ [][result'.op # "reset_user_state" =>
             /\ IsPrefix(quiz_performance, quiz_performance')
             /\ IsPrefix(hesitation_history, hesitation_history')
         ]_vars

\* two attempts with different hesitations, then a resubmission that found
\* both logs as they were
C22_Witness ==
    /\ Submitted /\ ~result.recorded
    /\ hesitation_history = <<9, 5>>
    /\ Len(quiz_performance) = 2

\* C23: the difficulty_level stored in an attempt is the learner's
\* difficulty_level before the call that recorded it, whatever the Difficulty
\* Adapter and the confusion side effect of that call then do, and the
\* attempts already stored are not changed by later operations.
C23_AttemptKeepsDifficultyBefore ==
    [][result'.op # "reset_user_state" =>
          /\ IsPrefix(quiz_performance, quiz_performance')
          /\ Len(quiz_performance') > Len(quiz_performance) =>
                quiz_performance'[Len(quiz_performance')].difficulty_level
                   = difficulty_level
      ]_vars

\* a confused first submission of the second question: the stored
\* difficulty is 2, the adapter went to 3 and the confusion back to 2, after
\* which the learner's difficulty moved on
C23_Witness ==
    /\ Len(quiz_performance) = 2
    /\ quiz_performance[2].difficulty_level = 2
    /\ Submitted /\ result.recorded /\ result.is_confused
    /\ result.adapted = 3
    /\ difficulty_level = 2

\* the records of the list with this user_id
RecordsOf(all_users, user) == SelectSeq(all_users, LAMBDA u : u.user_id = user)

\* a step of the learner's engine loading its record (peer steps change peer,
\* the steps of a save change request)
LoadStep == result'.op = "load_state" /\ request.op = "none" /\ request' = request /\ peer' = peer

\* C24: a save_state of the learner leaves exactly one stored record with the
\* learner's user_id, equal to the in-memory record, and a load that follows
\* returns it; a load finding no stored record of the learner returns the
\* initial record; no load writes to the store.
C24_SaveThenLoadRoundTrip == [][/\ request.op = "save_state" /\ request'.op = "none" => RecordsOf(store', user_id) = <<Record'>> /\ load_or_initialize_state(store', user_id) = Record'
                                /\ LoadStep /\ RecordsOf(store, user_id) = <<>> => Record' = InitialRecord(user_id)
                                /\ LoadStep => store' = store /\ Record' = result'.state /\ Record' = load_or_initialize_state(store, user_id)]_vars

\* the learner saved a second style over a stored one while the peer's record
\* is stored before it, and a load has since returned the record
C24_Witness == result.op = "load_state" /\ result.state.preferred_learning_style = "text" /\ Len(store) = 2 /\ store[2] = Record /\ store[1].user_id = peer_id

\* C25: a rewrite of the file by one learner's save_state leaves the stored
\* records of the other learner as they were.
C25_SaveLeavesOtherLearner == [][/\ request.op = "save_state" /\ request'.op = "none" => RecordsOf(store', peer_id) = RecordsOf(store, peer_id)
                                 /\ peer.saving /\ ~peer'.saving => RecordsOf(store', user_id) = RecordsOf(store, user_id)]_vars
C27_PersistedWhenRequestResolved == [][store' # store => request'.op = "none"]_vars
\* an evaluate_answer call that found no confusion phrase and got no verdict
\* from the semantic service (no client, or the call raised)
EvaluatedByFallback == result.op = "evaluate_answer" /\ ~result.answer.phrase /\ result.verdict = <<>>

\* C28: without a verdict of the semantic service and without confusion
\* phrase, an answer of trimmed length n is evaluated: n < 10 gives
\* is_correct = false, is_confused = true, confidence 0.2; otherwise
\* is_correct iff n >= 20 and (keyword or n >= 50), is_confused iff n < 15,
\* confidence 0.7 when correct and n > 40, 0.5 when correct otherwise, 0.3
\* when incorrect; is_correct and is_confused are never both true.
C28_FallbackEvaluation ==
    EvaluatedByFallback =>
        LET n == result.answer.length
            e == result.evaluation
            correct == n >= 20 /\ (result.answer.keywords \/ n >= 50)
        IN  /\ n < 10 => ~e.is_correct /\ e.is_confused /\ e.confidence = 2
            /\ n >= 10 => /\ e.is_correct = correct
                          /\ e.is_confused = (n < 15)
                          /\ e.confidence = IF correct /\ n > 40 THEN 7 ELSE IF correct THEN 5 ELSE 3
            /\ ~(e.is_correct /\ e.is_confused)

\* an answer of 14 characters with a keyword: past the too-short return,
\* incorrect and confused at confidence 0.3
C28_Witness == EvaluatedByFallback /\ result.answer.length = 14 /\ result.answer.keywords /\ result.evaluation.is_confused /\ ~result.evaluation.is_correct /\ result.evaluation.confidence = 3 /\ result.evaluation.stage = "heuristic"

\* C29: when the semantic service answers for a non-empty answer without
\* confusion phrase, is_correct is the understanding flag of its verdict and
\* is_confused is its confused flag or the phrase detector's result.
C29_ServiceVerdictReturned ==
    result.op = "evaluate_answer" /\ result.verdict # <<>> /\ result.answer.length > 0 /\ ~result.answer.phrase =>
        /\ result.evaluation.is_correct = result.verdict[1].understanding
        /\ result.evaluation.is_confused = (result.verdict[1].confused \/ result.answer.phrase)
\* run_diagnostic_agent has returned a local question
Presented == result.op = "run_diagnostic_agent" /\ result.next_mode = "multiple_choice"

\* C30: for each question_index 0..4 and every shuffle outcome the local
\* diagnostic question is returned with 5 options, the first four a
\* permutation of the question's four real options and the fifth its
\* unsure option, and correct_answer lies in 0..3 and is the index of the
\* originally correct option among the returned options.
C30_ShuffledPresentation ==
    /\ result.op = "run_diagnostic_agent" /\ result.question_index \in 0..4 => Presented
    /\ Presented =>
        LET payload == result.question_payload[1]
            original == diagnostic_questions[result.question_index + 1]
        IN  /\ Len(payload.options) = 5
            /\ payload.options[5] = original.options[5]
            /\ {payload.options[i] : i \in 1..4} = {original.options[i] : i \in 1..4}
            /\ Cardinality({payload.options[i] : i \in 1..4}) = 4
            /\ payload.correct_answer \in 0..3
            /\ payload.options[payload.correct_answer + 1] = original.options[original.correct_answer + 1]

\* the last question with its correct option shuffled to the fourth place
C30_Witness == Presented /\ result.question_index = 4 /\ result.question_payload[1].correct_answer = 3 /\ result.question_payload[1].options[4] = "reasoning engine, tools and memory" /\ result.question_payload[1].options[5] = "I'm not sure"
\* the batch with the answer at position i replaced by the wrong option w
WithWrongAt(batch, i, w) == [batch EXCEPT ![i].selected_option = w]

\* the options of an answer that are neither its correct one nor "I'm not sure"
WrongOptions(answer) == (0..3) \ {answer.correct_answer_index}

\* C31: for a scored batch of 5 answers, replacing one unsure answer by a
\* wrong answer to the same question never gives a higher level than the
\* batch got.
C31_WrongNeverAboveUnsure ==
    diagnostic_result.stage # "none" /\ Len(answers) = 5 =>
        \A i \in 1..Len(answers) :
            answers[i].selected_option = UnsureOption =>
                \A w \in WrongOptions(answers[i]) :
                    calculate_diagnostic_level(WithWrongAt(answers, i, w)).level <= diagnostic_result.level
\* C32: a deduplicated resubmission (the question id is already in
\* quiz_performance, so no attempt is recorded) adds no pending unit, here
\* with every earlier unit completed before the question is answered again.
C32_ResubmissionAddsNoUnit == [][result'.op = "submit_quiz_answer" /\ ~result'.recorded /\ pending_clarifications = <<>> => pending_clarifications' = <<>>]_vars
\* C33: in every reachable state current_page is a page of current_module:
\* 0 <= current_page < get_module_page_count(current_module).
C33_PageWithinModule == 0 <= current_page /\ current_page < get_module_page_count(current_module)
\* C34: current_module is always one of diagnostic, fundamentals,
\* transformers_llms, agents, build_todo_agent, capstone_completed; it is
\* never "clarification", also right after get_next_lesson has served a
\* pending clarification, so the guard of submit_quiz_answer holds.
C34_ModuleNeverClarification ==
    /\ current_module \in {"diagnostic", "fundamentals", "transformers_llms", "agents", "build_todo_agent", "capstone_completed"}
    /\ current_module # "clarification"

\* get_next_lesson has just served the pending clarification of a learner
\* who answered wrong in transformers_llms
C34_Witness == result.op = "get_next_lesson" /\ result.is_clarification /\ Len(pending_clarifications) = 1 /\ pending_clarifications[1].source_module = "transformers_llms" /\ current_module = "transformers_llms"
\* C35: with the advisory service unavailable a submit_quiz_answer call
\* leaves difficulty_level at most one step from where it was.
C35_OneStepPerSubmission == [][result'.op = "submit_quiz_answer" => difficulty_level' - difficulty_level \in {-1, 0, 1}]_vars
\* C36: the feedback of submit_quiz_answer has previous_difficulty equal to
\* difficulty_level before the call and new_difficulty equal to
\* difficulty_level after it, and when the two differ it carries
\* difficulty_changed = true with the direction of the change.
C36_FeedbackReportsChange ==
    [][result'.op = "submit_quiz_answer" =>
          /\ result'.previous_difficulty = difficulty_level
          /\ result'.new_difficulty = difficulty_level'
          /\ difficulty_level' > difficulty_level => result'.difficulty_changed /\ result'.change_direction = "increased"
          /\ difficulty_level' < difficulty_level => result'.difficulty_changed /\ result'.change_direction = "decreased"
      ]_vars
\* C37: a get_next_lesson call leaves difficulty_level, current_page,
\* quiz_performance, hesitation_history, preferred_learning_style and
\* pending_clarifications unchanged, and completed_modules too unless it
\* appends diagnostic on the step from diagnostic to fundamentals; called
\* with skip_clarifications = false on a non-empty queue it returns the head
\* unit of the queue and removes nothing.
C37_LessonCallReadsOnly ==
    [][result'.op = "get_next_lesson" =>
          /\ UNCHANGED <<difficulty_level, current_page, quiz_performance, hesitation_history, preferred_learning_style, pending_clarifications>>
          /\ \/ completed_modules' = completed_modules
             \/ /\ current_module = "diagnostic" /\ current_module' = "fundamentals"
                /\ completed_modules' = Append(completed_modules, "diagnostic")
          /\ (~result'.skip_clarifications /\ pending_clarifications # <<>>) =>
                /\ result'.is_clarification
                /\ result'.clarification_id = Head(pending_clarifications).module_id
          /\ result'.is_clarification => ~result'.skip_clarifications /\ pending_clarifications # <<>>
      ]_vars

\* the head of a queue of two units of different questions has been served
\* and both units are still pending
C37_Witness == result.op = "get_next_lesson" /\ result.is_clarification /\ Len(pending_clarifications) = 2 /\ result.clarification_id = pending_clarifications[1].module_id /\ pending_clarifications[1].question_id # pending_clarifications[2].question_id
\* C38: get_next_lesson returns at most one check question, never one whose
\* id <module>_q<global_index> is among the question ids of
\* quiz_performance, and none when every question of the module is answered.
C38_OneUnansweredQuestion ==
    result.op = "check_questions" =>
        LET returned == result.check_questions
            all_ids == {QuestionId(result.module_name, i) : i \in 0..(result.n - 1)}
        IN  /\ Len(returned) <= 1
            /\ \A k \in 1..Len(returned) :
                  /\ returned[k] \in 0..(result.n - 1)
                  /\ QuestionId(result.module_name, returned[k]) \notin result.answered_question_ids
            /\ all_ids \subseteq result.answered_question_ids => returned = <<>>

\* page 3 of fundamentals with two questions, the first answered: the
\* second question is returned
C38_Witness == result.op = "check_questions" /\ result.module_name = "fundamentals" /\ result.current_page = 3 /\ result.n = 2 /\ result.answered_question_ids = {QuestionId("fundamentals", 0)} /\ result.check_questions = <<1>>
\* the n most recent attempts are all correct with hesitation < 10, or all
\* incorrect
LastAttemptsCorrect(n) == Len(quiz_performance) >= n /\ \A i \in (Len(quiz_performance) - n + 1)..Len(quiz_performance) : quiz_performance[i].correct /\ quiz_performance[i].hesitation_seconds < 10

LastAttemptsIncorrect(n) == Len(quiz_performance) >= n /\ \A i \in (Len(quiz_performance) - n + 1)..Len(quiz_performance) : ~quiz_performance[i].correct

\* C39: with the advisory service unavailable, once the 4 most recent
\* attempts (or more) are all correct with hesitation < 10, whatever the
\* difficulty and the attempts before them, difficulty_level is 3 and it
\* stays 3 while such attempts continue; once the 4 most recent attempts are
\* all incorrect it is 0 and stays 0.
C39_StreakReachesEnd ==
    /\ LastAttemptsCorrect(4) => difficulty_level = 3
    /\ LastAttemptsIncorrect(4) => difficulty_level = 0

\* two slow wrong attempts at difficulty 0, then four quick correct ones:
\* the fourth brings the difficulty to 3
C39_Witness == Len(quiz_performance) = 6 /\ LastAttemptsCorrect(4) /\ ~quiz_performance[2].correct /\ quiz_performance[3].difficulty_level = 0 /\ quiz_performance[6].difficulty_level = 2 /\ difficulty_level = 3
\* C40: _call_liquidmetal_agent returns the service's result whenever there
\* is a client and the service returns a truthy result, and
\* run_diagnostic_agent then uses that result instead of the local question.
C40_ServiceResultReturned ==
    result.op = "run_diagnostic_agent" /\ result.client /\ result.service_result # <<>> =>
        /\ result.returned = result.service_result
        /\ result.next_mode = result.service_result[1].next_mode
====
